---- MODULE Spec2Model ----
(***************************************************************************)
(* sigctx.NotifyContext: a context that is cancelled by an OS signal, by   *)
(* its stop function or by its parent.                                     *)
(*                                                                         *)
(* The repository holds two variants of NotifyContext: src/sigctx.go      *)
(* (the channel is made and registered only when the parent is live) and  *)
(* src/unnamed/part_001 (the channel is always made and registered).      *)
(* The variable build says which one the program was built from.          *)
(*                                                                         *)
(* context.WithCancel, the cancel function, signal.Notify, signal.Stop    *)
(* and the runtime's signal dispatcher are the standard library's; they   *)
(* are modelled by their documented behaviour at the lines that call      *)
(* them.                                                                   *)
(***************************************************************************)
EXTENDS Naturals, Sequences, FiniteSets

\* ---------------------------------------------------------------- bounds
\* longest list of signals whose String() is rendered
MaxNames == 3
\* longest list of signals handed to NotifyContext
MaxSigs == 2
\* signals the process receives in one run
MaxDeliver == 2
\* goroutines that call stop
NumCallers == 2
\* stop calls made on one instance in one run
MaxStops == 2

\* ------------------------------------------------------- program constants
\* make(chan os.Signal, 1)
ChanCap == 1

\* ------------------------------------------------------------------ values
Signals == {"SIGHUP", "SIGINT"}
Inst == {"A", "B"}
Builds == {"sigctx.go", "part_001"}
Callers == 1..NumCallers

\* what the caller's parent context is: its String(), its Deadline() (0: it
\* has none), its Value(key) for each key (the string "nil": none), and the
\* reasons it can complete with
Keys == {"k1", "k2"}
NoValue == "nil"
NoDeadline == 0
ParentKinds ==
  { [name |-> "context.Background", deadline |-> NoDeadline,
     vals |-> [k \in Keys |-> NoValue], ends |-> {}],
    [name |-> "context.Background.WithCancel", deadline |-> NoDeadline,
     vals |-> [k \in Keys |-> NoValue], ends |-> {"context canceled"}],
    [name |-> "context.TODO.WithValue.WithDeadline", deadline |-> 7,
     vals |-> [k \in Keys |-> IF k = "k1" THEN "v1" ELSE NoValue],
     ends |-> {"context canceled", "context deadline exceeded"}] }
\* a parent that can be cancelled and can run into its deadline
TimedParent == CHOOSE p \in ParentKinds : p.deadline # NoDeadline

NoErr == "nil"
Canceled == "context canceled"
DeadlineExceeded == "context deadline exceeded"
Reasons == {Canceled, DeadlineExceeded}

Range(s) == {s[k] : k \in 1..Len(s)}

RECURSIVE SeqsUpTo(_)
SeqsUpTo(n) ==
  IF n = 0 THEN {<<>>}
  ELSE LET shorter == SeqsUpTo(n - 1)
       IN  shorter \cup {Append(q, s) : q \in {r \in shorter : Len(r) = n - 1}, s \in Signals}

\* the signals... arguments a caller may pass
SigLists == SeqsUpTo(MaxSigs)

\* the signals the tests name, and the lists of them String() is rendered for
NamedSignals == Signals \cup {"SIGTERM"}
NamedLists == UNION {[1..n -> NamedSignals] : n \in 0..MaxNames}

\* os.Signal's String(): the signal's canonical name
SignalString(s) ==
  CASE s = "SIGHUP" -> "hangup"
    [] s = "SIGINT" -> "interrupt"
    [] s = "SIGTERM" -> "terminated"

VARIABLES
  build,      \* which variant of NotifyContext the program uses
  todo,       \* instances the program has yet to create with NotifyContext
  born,       \* born[i]: "no" before NotifyContext(i) returned, then "live" or
              \* "done": whether the parent was done when it was called
  parentErr,  \* parentErr[i]: Err() of the parent handed to NotifyContext(i)
  ctx,        \* ctx[i]: the context.WithCancel child the instance wraps:
              \* err is its Err(), closed the number of times its done
              \* channel was closed
  cause,      \* cause[i]: what made ctx[i] done: "none", "signal", "stop", "parent"
  signals,    \* signals[i]: c.signals
  alloc,      \* alloc[i]: c.ch is not nil
  ch,         \* ch[i]: contents of c.ch
  handlers,   \* handlers[i]: signals the process-wide table relays to c.ch
  listener,   \* listener[i]: "none", "select", "recv", "exit"
  sp,         \* sp[t]: "idle", or the instance whose stop caller t is inside
              \* (after c.cancel(), before signal.Stop)
  called,     \* called[i]: stop calls begun on i
  rcv,        \* rcv[i]: signals the dispatcher has handed to c.ch (sent or dropped)
  nSent,      \* signals the process has received
  late,       \* late[i]: the process received a signal after a stop call on i
              \* had returned
  parentIs,   \* parentIs[i]: the kind of parent handed to NotifyContext(i)
  started,    \* started[i]: listener goroutines started for i so far
  ret         \* what the last call of String, Deadline or Value returned:
              \* <<>> before any call, else <<method, instance, key, value>>

vars == <<build, todo, born, parentErr, ctx, cause, signals, alloc, ch, handlers,
          listener, sp, called, rcv, nSent, late, parentIs, started, ret>>

\* ---------------------------------------------------- context (collaborator)
NewCtx == [err |-> NoErr, closed |-> 0]

\* Cancel without the "already cancelled" test: every call records its reason
\* and closes the done channel again.
CancelAgain(c, reason) ==
  [err |-> reason, closed |-> IF c.closed < 2 THEN c.closed + 1 ELSE c.closed]

\* Cancel that closes once but lets a later call overwrite the reason.
CancelOverwrite(c, reason) ==
  [err |-> reason, closed |-> IF c.closed = 0 THEN 1 ELSE c.closed]

\* The cancel function of a context: the first call records the reason and
\* closes the done channel, later calls do nothing.
Cancel(c, reason) ==
  IF c.err # NoErr THEN c
  ELSE [err |-> reason, closed |-> c.closed + 1]

\* A child that is not cancelled at creation although the parent is done.
WithCancelLazy(pe) == NewCtx

\* context.WithCancel(parent): a child that is cancelled at once, with the
\* parent's reason, when the parent is already done.
WithCancel(pe) ==
  IF pe # NoErr THEN Cancel(NewCtx, pe) ELSE NewCtx

\* Err that asks the caller's parent instead of the wrapped child.
ErrOfParent(i) == parentErr[i]

\* signalCtx.Err and signalCtx.Done forward to the wrapped child.
Err(i) == ctx[i].err
Done(i) == ctx[i].closed > 0

\* a stop call on i has returned
StopReturned(i) == called[i] > Cardinality({t \in Callers : sp[t] = i})

\* what a step that cancels ctx[i] for reason why leaves in cause[i]
CauseAfter(i, why) == IF ctx[i].err = NoErr THEN why ELSE cause[i]

\* ------------------------------------------------- os/signal (collaborator)
\* signal.Notify(c.ch) called without c.signals...: every signal is relayed.
NotifyMaskAll(sigs) == Signals

\* signal.Notify(c, sigs...): no signals means all signals.
NotifyMask(sigs) == IF Len(sigs) = 0 THEN Signals ELSE Range(sigs)

\* A send into a channel that grows instead of dropping.
SendGrow(q, s) == Append(q, s)

\* The dispatcher's send to a registered channel: select with default, so a
\* full channel drops the signal.
Send(q, s) == IF Len(q) < ChanCap THEN Append(q, s) ELSE q

\* A stop that leaves the registration in place.
SignalStopNoop(h, i) == h

\* A stop that resets the whole handler table, other channels' entries too.
SignalStopAll(h, i) == [j \in Inst |-> {}]

\* signal.Stop(c.ch): removes the channel's entry; a channel that has none
\* (nil, or never registered) is left alone.
SignalStop(h, i) == IF alloc[i] THEN [h EXCEPT ![i] = {}] ELSE h

\* -------------------------------------------------------------------- Init
\* before the program's first call
Start ==
  /\ build \in Builds
  /\ born = [i \in Inst |-> "no"]
  /\ parentErr = [i \in Inst |-> NoErr]
  /\ ctx = [i \in Inst |-> NewCtx]
  /\ cause = [i \in Inst |-> "none"]
  /\ signals = [i \in Inst |-> <<>>]
  /\ alloc = [i \in Inst |-> FALSE]
  /\ ch = [i \in Inst |-> <<>>]
  /\ handlers = [i \in Inst |-> {}]
  /\ listener = [i \in Inst |-> "none"]
  /\ sp = [t \in Callers |-> "idle"]
  /\ called = [i \in Inst |-> 0]
  /\ rcv = [i \in Inst |-> <<>>]
  /\ nSent = 0
  /\ late = [i \in Inst |-> FALSE]
  /\ started = [i \in Inst |-> 0]
  /\ ret = <<>>

\* a program that makes one instance, from a parent that can be cancelled and
\* has a deadline
Init ==
  /\ Start
  /\ todo = {"A"}
  /\ parentIs = [i \in Inst |-> TimedParent]

\* ----------------------------------------------------------- NotifyContext
\* A NotifyContext that starts the listener without looking at ctx.Err().
NotifyContextEager(i, sigs) ==
  /\ build = "sigctx.go"
  /\ i \in todo
  /\ todo' = todo \ {i}
  /\ LET c == WithCancel(parentErr[i])
     IN  /\ ctx' = [ctx EXCEPT ![i] = c]
         /\ cause' = [cause EXCEPT ![i] = IF c.err # NoErr THEN "parent" ELSE "none"]
  /\ signals' = [signals EXCEPT ![i] = sigs]
  /\ alloc' = [alloc EXCEPT ![i] = TRUE]
  /\ ch' = [ch EXCEPT ![i] = <<>>]
  /\ handlers' = [handlers EXCEPT ![i] = @ \cup NotifyMask(sigs)]
  /\ listener' = [listener EXCEPT ![i] = "select"]
  /\ started' = [started EXCEPT ![i] = @ + 1]
  /\ born' = [born EXCEPT ![i] = IF parentErr[i] = NoErr THEN "live" ELSE "done"]
  /\ UNCHANGED <<build, parentErr, sp, called, rcv, nSent, late, parentIs, ret>>

\* src/sigctx.go: channel, registration and listener only for a live parent.
NotifyContext(i, sigs) ==
  /\ build = "sigctx.go"
  /\ i \in todo
  /\ todo' = todo \ {i}
  /\ LET c == WithCancel(parentErr[i])
     IN  /\ ctx' = [ctx EXCEPT ![i] = c]
         /\ cause' = [cause EXCEPT ![i] = IF c.err # NoErr THEN "parent" ELSE "none"]
         /\ signals' = [signals EXCEPT ![i] = sigs]
         /\ IF c.err = NoErr
            THEN /\ alloc' = [alloc EXCEPT ![i] = TRUE]
                 /\ ch' = [ch EXCEPT ![i] = <<>>]
                 /\ handlers' = [handlers EXCEPT ![i] = @ \cup NotifyMask(sigs)]
                 /\ listener' = [listener EXCEPT ![i] = "select"]
                 /\ started' = [started EXCEPT ![i] = @ + 1]
            ELSE UNCHANGED <<alloc, ch, handlers, listener, started>>
  /\ born' = [born EXCEPT ![i] = IF parentErr[i] = NoErr THEN "live" ELSE "done"]
  /\ UNCHANGED <<build, parentErr, sp, called, rcv, nSent, late, parentIs, ret>>

\* src/unnamed/part_001: channel and registration always, listener only for
\* a live parent.
NotifyContextAlways(i, sigs) ==
  /\ build = "part_001"
  /\ i \in todo
  /\ todo' = todo \ {i}
  /\ LET c == WithCancel(parentErr[i])
     IN  /\ ctx' = [ctx EXCEPT ![i] = c]
         /\ cause' = [cause EXCEPT ![i] = IF c.err # NoErr THEN "parent" ELSE "none"]
         /\ signals' = [signals EXCEPT ![i] = sigs]
         /\ alloc' = [alloc EXCEPT ![i] = TRUE]
         /\ ch' = [ch EXCEPT ![i] = <<>>]
         /\ handlers' = [handlers EXCEPT ![i] = @ \cup NotifyMask(sigs)]
         /\ IF c.err = NoErr
            THEN /\ listener' = [listener EXCEPT ![i] = "select"]
                 /\ started' = [started EXCEPT ![i] = @ + 1]
            ELSE UNCHANGED <<listener, started>>
  /\ born' = [born EXCEPT ![i] = IF parentErr[i] = NoErr THEN "live" ELSE "done"]
  /\ UNCHANGED <<build, parentErr, sp, called, rcv, nSent, late, parentIs, ret>>

\* ---------------------------------------------------------------- listener
\* select: case <-c.ch
ListenerRecv(i) ==
  /\ listener[i] = "select"
  /\ Len(ch[i]) > 0
  /\ ch' = [ch EXCEPT ![i] = Tail(@)]
  /\ listener' = [listener EXCEPT ![i] = "recv"]
  /\ UNCHANGED <<build, todo, born, parentErr, ctx, cause, signals, alloc, handlers,
                 sp, called, rcv, nSent, late, parentIs, started, ret>>

\* The listener ends after the receive without cancelling.
ListenerCancelSkip(i) ==
  /\ listener[i] = "recv"
  /\ listener' = [listener EXCEPT ![i] = "exit"]
  /\ UNCHANGED <<build, todo, born, parentErr, ctx, cause, signals, alloc, ch,
                 handlers, sp, called, rcv, nSent, late, parentIs, started, ret>>

\* The listener calls c.stop() instead of c.cancel(): it also unregisters.
ListenerCancelStops(i) ==
  /\ listener[i] = "recv"
  /\ ctx' = [ctx EXCEPT ![i] = Cancel(@, Canceled)]
  /\ cause' = [cause EXCEPT ![i] = CauseAfter(i, "signal")]
  /\ handlers' = [handlers EXCEPT ![i] = {}]
  /\ listener' = [listener EXCEPT ![i] = "exit"]
  /\ UNCHANGED <<build, todo, born, parentErr, signals, alloc, ch,
                 sp, called, rcv, nSent, late, parentIs, started, ret>>

\* A listener whose select sits in a for loop: after c.cancel() it waits again.
ListenerCancelLoop(i) ==
  /\ listener[i] = "recv"
  /\ ctx' = [ctx EXCEPT ![i] = Cancel(@, Canceled)]
  /\ cause' = [cause EXCEPT ![i] = CauseAfter(i, "signal")]
  /\ listener' = [listener EXCEPT ![i] = "select"]
  /\ UNCHANGED <<build, todo, born, parentErr, signals, alloc, ch, handlers,
                 sp, called, rcv, nSent, late, parentIs, started, ret>>

\* c.cancel() after the receive; the goroutine ends
ListenerCancel(i) ==
  /\ listener[i] = "recv"
  /\ ctx' = [ctx EXCEPT ![i] = Cancel(@, Canceled)]
  /\ cause' = [cause EXCEPT ![i] = CauseAfter(i, "signal")]
  /\ listener' = [listener EXCEPT ![i] = "exit"]
  /\ UNCHANGED <<build, todo, born, parentErr, signals, alloc, ch, handlers,
                 sp, called, rcv, nSent, late, parentIs, started, ret>>

\* A listener that waits for a signal only: it has no case <-c.Done().
ListenerDoneNever(i) ==
  /\ listener[i] = "select"
  /\ Done(i)
  /\ FALSE
  /\ UNCHANGED vars

\* select: case <-c.Done(); the goroutine ends
ListenerDone(i) ==
  /\ listener[i] = "select"
  /\ Done(i)
  /\ listener' = [listener EXCEPT ![i] = "exit"]
  /\ UNCHANGED <<build, todo, born, parentErr, ctx, cause, signals, alloc, ch,
                 handlers, sp, called, rcv, nSent, late, parentIs, started, ret>>

\* -------------------------------------------------------------------- stop
\* A stop that forgets c.cancel() and only unregisters.
StopCancelSkip(t, i) ==
  /\ sp[t] = "idle"
  /\ born[i] # "no"
  /\ called[i] < MaxStops
  /\ sp' = [sp EXCEPT ![t] = i]
  /\ called' = [called EXCEPT ![i] = @ + 1]
  /\ UNCHANGED <<build, todo, born, parentErr, ctx, cause, signals, alloc, ch,
                 handlers, listener, rcv, nSent, late, parentIs, started, ret>>

\* A stop that also cancels the parent it was derived from.
StopCancelsParent(t, i) ==
  /\ sp[t] = "idle"
  /\ born[i] # "no"
  /\ called[i] < MaxStops
  /\ ctx' = [ctx EXCEPT ![i] = Cancel(@, Canceled)]
  /\ cause' = [cause EXCEPT ![i] = CauseAfter(i, "stop")]
  /\ sp' = [sp EXCEPT ![t] = i]
  /\ called' = [called EXCEPT ![i] = @ + 1]
  /\ parentErr' = [parentErr EXCEPT ![i] = IF @ = NoErr THEN Canceled ELSE @]
  /\ UNCHANGED <<build, todo, born, signals, alloc, ch, handlers,
                 listener, rcv, nSent, late, parentIs, started, ret>>

\* caller t enters stop of instance i: c.cancel()
StopCancel(t, i) ==
  /\ sp[t] = "idle"
  /\ born[i] # "no"
  /\ called[i] < MaxStops
  /\ ctx' = [ctx EXCEPT ![i] = Cancel(@, Canceled)]
  /\ cause' = [cause EXCEPT ![i] = CauseAfter(i, "stop")]
  /\ sp' = [sp EXCEPT ![t] = i]
  /\ called' = [called EXCEPT ![i] = @ + 1]
  /\ UNCHANGED <<build, todo, born, parentErr, signals, alloc, ch, handlers,
                 listener, rcv, nSent, late, parentIs, started, ret>>

\* caller t finishes stop: signal.Stop(c.ch), return
StopUnregister(t) ==
  /\ sp[t] \in Inst
  /\ handlers' = SignalStop(handlers, sp[t])
  /\ sp' = [sp EXCEPT ![t] = "idle"]
  /\ UNCHANGED <<build, todo, born, parentErr, ctx, cause, signals, alloc, ch,
                 listener, called, rcv, nSent, late, parentIs, started, ret>>

\* ------------------------------------------------------------- environment
\* The process receives signal s: the dispatcher offers it to every channel
\* registered for it.
Deliver(s) ==
  /\ nSent < MaxDeliver
  /\ nSent' = nSent + 1
  /\ ch' = [i \in Inst |-> IF s \in handlers[i] THEN Send(ch[i], s) ELSE ch[i]]
  /\ rcv' = [i \in Inst |-> IF s \in handlers[i] THEN Append(rcv[i], s) ELSE rcv[i]]
  /\ late' = [i \in Inst |-> late[i] \/ StopReturned(i)]
  /\ UNCHANGED <<build, todo, born, parentErr, ctx, cause, signals, alloc, handlers,
                 listener, sp, called, parentIs, started, ret>>

\* The parent of instance i completes on its own: its cancel function is
\* called (Canceled) or its deadline passes (DeadlineExceeded).
ParentDone(i, reason) ==
  /\ i \in todo \/ born[i] # "no"
  /\ parentErr[i] = NoErr
  /\ reason \in parentIs[i].ends
  /\ parentErr' = [parentErr EXCEPT ![i] = reason]
  /\ UNCHANGED <<build, todo, born, ctx, cause, signals, alloc, ch, handlers,
                 listener, sp, called, rcv, nSent, late, parentIs, started, ret>>

\* A child that was derived from some other context: the parent's completion
\* never reaches it.
PropagateDetached(i) ==
  /\ born[i] # "no"
  /\ parentErr[i] # NoErr
  /\ ctx[i].err = NoErr
  /\ UNCHANGED vars

\* The context package hands the parent's completion on to the child.
Propagate(i) ==
  /\ born[i] # "no"
  /\ parentErr[i] # NoErr
  /\ ctx[i].err = NoErr
  /\ ctx' = [ctx EXCEPT ![i] = Cancel(@, parentErr[i])]
  /\ cause' = [cause EXCEPT ![i] = CauseAfter(i, "parent")]
  /\ UNCHANGED <<build, todo, born, parentErr, signals, alloc, ch, handlers,
                 listener, sp, called, rcv, nSent, late, parentIs, started, ret>>

\* ------------------------------------------------------------------ String
\* String() of the context.WithCancel child: the parent's name and a suffix
ChildString(i) == parentIs[i].name \o ".WithCancel"

\* src/sigctx.go: for _, s := range c.signals: the name, then a space
RECURSIVE NamesEachThenSpace(_)
NamesEachThenSpace(sigs) ==
  IF Len(sigs) = 0 THEN ""
  ELSE SignalString(Head(sigs)) \o " " \o NamesEachThenSpace(Tail(sigs))

\* src/unnamed/part_001: the name, then a space unless it is the last
RECURSIVE NamesSpaceBetween(_)
NamesSpaceBetween(sigs) ==
  IF Len(sigs) = 0 THEN ""
  ELSE SignalString(Head(sigs))
         \o (IF Len(sigs) # 1 THEN " " ELSE "")
         \o NamesSpaceBetween(Tail(sigs))

\* src/sigctx.go String(): the literal word parent, not the parent's name
StringFixedParent(i) ==
  "signal.NotifyContext(parent"
    \o (IF Len(signals[i]) # 0
        THEN ", [" \o NamesEachThenSpace(signals[i]) \o "]"
        ELSE "")
    \o ")"

\* src/unnamed/part_001 String(): the child's name without its last
\* len(".WithCancel") bytes
StringOfChild(i) ==
  LET name == ChildString(i)
      cut == SubSeq(name, 1, Len(name) - Len(".WithCancel"))
  IN  ("signal.NotifyContext(" \o cut)
        \o (IF Len(signals[i]) # 0
            THEN ", [" \o NamesSpaceBetween(signals[i]) \o "]"
            ELSE "")
        \o ")"

String(i) == IF build = "sigctx.go" THEN StringFixedParent(i) ELSE StringOfChild(i)

\* fmt.Sprint(c) on an instance
StringCall(i) ==
  /\ born[i] # "no"
  /\ ret' = <<"String", i, "", String(i)>>
  /\ UNCHANGED <<build, todo, born, parentErr, ctx, cause, signals, alloc, ch,
                 handlers, listener, sp, called, rcv, nSent, late, parentIs, started>>

\* ------------------------------------------------------- Deadline, Value
\* Deadline() of the context.WithCancel child: the cancelCtx embeds its
\* parent, so it is the parent's deadline and whether it has one
ChildDeadline(i) == <<parentIs[i].deadline, parentIs[i].deadline # NoDeadline>>

\* A Deadline() that returns the zero time and false.
DeadlineZero(i) == <<NoDeadline, FALSE>>

\* Deadline(): return c.parent.Deadline(); c.parent is the child (in
\* src/unnamed/part_001 the embedded Context's method)
Deadline(i) == ChildDeadline(i)

\* Value(key) of the context.WithCancel child, for a key of the caller's:
\* the parent's Value(key)
ChildValue(i, k) == parentIs[i].vals[k]

\* Value(): return c.parent.Value(key)
Value(i, k) == ChildValue(i, k)

DeadlineCall(i) ==
  /\ born[i] # "no"
  /\ ret' = <<"Deadline", i, "", Deadline(i)>>
  /\ UNCHANGED <<build, todo, born, parentErr, ctx, cause, signals, alloc, ch,
                 handlers, listener, sp, called, rcv, nSent, late, parentIs, started>>

ValueCall(i, k) ==
  /\ born[i] # "no"
  /\ ret' = <<"Value", i, k, Value(i, k)>>
  /\ UNCHANGED <<build, todo, born, parentErr, ctx, cause, signals, alloc, ch,
                 handlers, listener, sp, called, rcv, nSent, late, parentIs, started>>

\* -------------------------------------------------------------------- Next
Next ==
  \/ \E i \in Inst, sigs \in SigLists : NotifyContext(i, sigs)
  \/ \E i \in Inst, sigs \in SigLists : NotifyContextAlways(i, sigs)
  \/ \E i \in Inst : ListenerRecv(i)
  \/ \E i \in Inst : ListenerCancel(i)
  \/ \E i \in Inst : ListenerDone(i)
  \/ \E t \in Callers, i \in Inst : StopCancel(t, i)
  \/ \E t \in Callers : StopUnregister(t)
  \/ \E s \in Signals : Deliver(s)
  \/ \E i \in Inst, r \in Reasons : ParentDone(i, r)
  \/ \E i \in Inst : Propagate(i)

Spec == Init /\ [][Next]_vars

\* Goroutines that can run do run: the listener, a stop call in progress,
\* and the context package's propagation.  Signals, stop calls and the
\* parent's completion are the environment's choice.
Fairness ==
  /\ \A i \in Inst : WF_vars(ListenerRecv(i) \/ ListenerDone(i))
  /\ \A i \in Inst : WF_vars(ListenerCancel(i))
  /\ \A t \in Callers : WF_vars(StopUnregister(t))
  /\ \A i \in Inst : WF_vars(Propagate(i))

FairSpec == Spec /\ Fairness

\* Only the context package's propagation is sure to run; the listener and
\* the stop callers may never take a step.
PropSpec == Spec /\ \A i \in Inst : WF_vars(Propagate(i))

\* A program that makes one instance from any kind of parent, live or done,
\* with any list of named signals, and prints it.
InitString ==
  /\ Start
  /\ todo = {"A"}
  /\ parentIs \in {[i \in Inst |-> p] : p \in ParentKinds}

NextString ==
  \/ \E i \in Inst, sigs \in NamedLists : NotifyContext(i, sigs)
  \/ \E i \in Inst, sigs \in NamedLists : NotifyContextAlways(i, sigs)
  \/ \E i \in Inst, r \in Reasons : ParentDone(i, r)
  \/ \E i \in Inst : StringCall(i)

StringSpec == InitString /\ [][NextString]_vars

\* the signal lists of the two-instance program: they share SIGINT
TwoLists == {<<"SIGINT">>, <<"SIGHUP", "SIGINT">>}

\* the goroutine of the two-instance program that calls stop
OneCaller == CHOOSE t \in Callers : TRUE

\* A program that makes two instances, each from its own parent, with
\* overlapping lists of signals, and calls stop on each at most once; the
\* parents stay live.
InitTwo ==
  /\ Start
  /\ todo = Inst
  /\ parentIs = [i \in Inst |-> TimedParent]

NextTwo ==
  \/ \E i \in Inst, sigs \in TwoLists : NotifyContext(i, sigs)
  \/ \E i \in Inst, sigs \in TwoLists : NotifyContextAlways(i, sigs)
  \/ \E i \in Inst : ListenerRecv(i)
  \/ \E i \in Inst : ListenerCancel(i)
  \/ \E i \in Inst : ListenerDone(i)
  \/ \E i \in Inst : called[i] = 0 /\ StopCancel(OneCaller, i)
  \/ \E t \in Callers : StopUnregister(t)
  \/ \E s \in Signals : Deliver(s)

TwoSpec == InitTwo /\ [][NextTwo]_vars

TwoFairSpec == TwoSpec /\ Fairness

\* the signal lists of the program that reads its context
AccessLists == {<<>>, <<"SIGINT">>}

\* A program that makes one instance from any kind of parent, calls stop at
\* most once, and reads the context's deadline, values and name at any time.
InitAccess ==
  /\ Start
  /\ todo = {"A"}
  /\ parentIs \in {[i \in Inst |-> p] : p \in ParentKinds}

NextAccess ==
  \/ \E i \in Inst, sigs \in AccessLists : NotifyContext(i, sigs)
  \/ \E i \in Inst, sigs \in AccessLists : NotifyContextAlways(i, sigs)
  \/ \E i \in Inst : ListenerRecv(i)
  \/ \E i \in Inst : ListenerCancel(i)
  \/ \E i \in Inst : ListenerDone(i)
  \/ \E i \in Inst : called[i] = 0 /\ StopCancel(OneCaller, i)
  \/ \E t \in Callers : StopUnregister(t)
  \/ \E s \in Signals : Deliver(s)
  \/ \E i \in Inst, r \in Reasons : ParentDone(i, r)
  \/ \E i \in Inst : Propagate(i)
  \/ \E i \in Inst : DeadlineCall(i)
  \/ \E i \in Inst, k \in Keys : ValueCall(i, k)
  \/ \E i \in Inst : StringCall(i)

AccessSpec == InitAccess /\ [][NextAccess]_vars

TypeOK ==
  /\ build \in Builds
  /\ todo \subseteq Inst
  /\ born \in [Inst -> {"no", "live", "done"}]
  /\ parentErr \in [Inst -> {NoErr} \cup Reasons]
  /\ \A i \in Inst : ctx[i].err \in {NoErr} \cup Reasons /\ ctx[i].closed \in 0..1
  /\ cause \in [Inst -> {"none", "signal", "stop", "parent"}]
  /\ \A i \in Inst : signals[i] \in SigLists
  /\ alloc \in [Inst -> BOOLEAN]
  /\ \A i \in Inst : Len(ch[i]) <= ChanCap
  /\ handlers \in [Inst -> SUBSET Signals]
  /\ listener \in [Inst -> {"none", "select", "recv", "exit"}]
  /\ sp \in [Callers -> {"idle"} \cup Inst]
  /\ called \in [Inst -> 0..MaxStops]
  /\ nSent \in 0..MaxDeliver
  /\ late \in [Inst -> BOOLEAN]
  /\ parentIs \in [Inst -> ParentKinds]
  /\ started \in [Inst -> 0..1]

\* ------------------------------------------------------------------ claims
\* an instance's watched signal reached its channel before any stop call
WatchedDelivered(i) ==
  /\ born[i] = "live"
  /\ called[i] = 0
  /\ \E k \in 1..Len(rcv[i]) : rcv[i][k] \in Range(signals[i])

\* the error of a done context is Canceled, or the reason its parent
\* completed with
CanceledOrParents(i) ==
  \/ Err(i) = Canceled
  \/ Err(i) # NoErr /\ Err(i) = parentErr[i]

\* C1 as stated: once a watched signal has been delivered to a registered
\* instance derived from a live parent, before any stop call, the context
\* eventually is done with error Canceled.
C1_Original == \A i \in Inst : WatchedDelivered(i) ~> (Done(i) /\ Err(i) = Canceled)

\* C1 amended: once a watched signal has been delivered to a registered
\* instance derived from a live parent, before any stop call, the context
\* eventually is done; its error is Canceled, or the parent's reason when the
\* parent completed with another reason before the listener cancelled.
C1_SignalCancels == \A i \in Inst : WatchedDelivered(i) ~> (Done(i) /\ CanceledOrParents(i))

\* A watched signal was delivered before any stop call and the listener has
\* cancelled the context for it.
C1_Witness ==
  /\ WatchedDelivered("A")
  /\ cause["A"] = "signal"
  /\ listener["A"] = "exit"
  /\ Err("A") = Canceled

\* C2 as stated: when a stop call has returned the context is done with error
\* Canceled.
C2_Original == \A i \in Inst : StopReturned(i) => Done(i) /\ Err(i) = Canceled

\* C2 amended: when a stop call has returned the context is done; its error
\* is Canceled when stop (or a signal) made it done, and the parent's reason
\* when the parent had made it done before.
C2_StopCancels ==
  \A i \in Inst :
    StopReturned(i) =>
      /\ Done(i)
      /\ Err(i) # NoErr
      /\ cause[i] \in {"stop", "signal"} => Err(i) = Canceled
      /\ cause[i] = "parent" => Err(i) = parentErr[i]
      /\ cause[i] # "none"

\* A stop call has returned and made the context done, with no signal ever
\* delivered and the parent still live.
C2_Witness ==
  /\ StopReturned("A")
  /\ cause["A"] = "stop"
  /\ Err("A") = Canceled
  /\ nSent = 0
  /\ parentErr["A"] = NoErr

\* C3: when the parent is cancelled after derivation the context eventually
\* is done with error Canceled, with fairness for the propagation alone: the
\* listener need not take a step, stop need not be called, no signal need
\* arrive.
C3_ParentCancels ==
  \A i \in Inst :
    (born[i] = "live" /\ parentErr[i] = Canceled) ~> (Done(i) /\ Err(i) = Canceled)

\* The parent was cancelled after derivation and that made the context done,
\* with no stop call, no signal, and the listener still in its select.
C3_Witness ==
  /\ born["A"] = "live"
  /\ parentErr["A"] = Canceled
  /\ cause["A"] = "parent"
  /\ Err("A") = Canceled
  /\ called["A"] = 0
  /\ nSent = 0
  /\ listener["A"] = "select"

\* C4: an instance whose parent was already done at construction is done,
\* with the parent's reason, from the state in which NotifyContext returns
\* on; no listener was started for it; and every stop call on it, the first
\* and the repeated ones, can finish (signal.Stop neither blocks nor fails,
\* the done channel is never closed a second time).
C4_BornDone ==
  \A i \in Inst :
    born[i] = "done" =>
      /\ Done(i)
      /\ Err(i) # NoErr
      /\ Err(i) = parentErr[i]
      /\ ctx[i].closed = 1
      /\ listener[i] = "none"
      /\ \A t \in Callers : sp[t] = i => ENABLED StopUnregister(t)

\* The parent was done at construction, stop has been called more than once
\* and has returned.
C4_Witness ==
  /\ born["A"] = "done"
  /\ called["A"] >= 2
  /\ \A t \in Callers : sp[t] = "idle"
  /\ Err("A") = parentErr["A"]

\* all stop calls begun on i have returned, and there were at least two
AllStopsReturned(i) ==
  /\ called[i] >= 2
  /\ \A t \in Callers : sp[t] # i

\* C5 as stated: with two or more stop calls, concurrent or not, every call
\* can return, the done channel is closed exactly once, and after the calls
\* the context is done with error Canceled and the instance unregistered.
C5_Original ==
  \A i \in Inst :
    /\ ctx[i].closed <= 1
    /\ \A t \in Callers : sp[t] = i => Done(i) /\ ENABLED StopUnregister(t)
    /\ AllStopsReturned(i) =>
         Done(i) /\ ctx[i].closed = 1 /\ handlers[i] = {} /\ Err(i) = Canceled

\* C5 amended: with two or more stop calls, concurrent or not, every call can
\* return, the done channel is closed exactly once, and after the calls the
\* context is done and the instance unregistered, as after a single call;
\* the error is Canceled, or the parent's reason when the parent had made
\* the context done before the first stop.
C5_StopIdempotent ==
  \A i \in Inst :
    /\ ctx[i].closed <= 1
    /\ \A t \in Callers : sp[t] = i => Done(i) /\ ENABLED StopUnregister(t)
    /\ AllStopsReturned(i) =>
         /\ Done(i) /\ ctx[i].closed = 1 /\ handlers[i] = {}
         /\ CanceledOrParents(i)
         /\ cause[i] \in {"stop", "signal"} => Err(i) = Canceled

\* Two callers are inside stop on the same live-born instance at once, a
\* signal has been delivered meanwhile, and stop made the context done.
C5_Witness ==
  /\ \A t \in Callers : sp[t] = "A"
  /\ born["A"] = "live"
  /\ cause["A"] = "stop"
  /\ Len(rcv["A"]) > 0
  /\ ctx["A"].closed = 1

\* the same watched signal has reached the channel of live, registered
\* instance i at least twice
DeliveredTwice(i) ==
  /\ born[i] = "live"
  /\ Err(i) = NoErr
  /\ handlers[i] # {}
  /\ \E j, k \in 1..Len(rcv[i]) :
       j < k /\ rcv[i][j] = rcv[i][k] /\ rcv[i][j] \in Range(signals[i])

\* deliveries never wait: the dispatcher can always take the next signal,
\* the channel never holds more than its one slot, and the done channel is
\* never closed twice
NoDeliveryHarm ==
  /\ nSent < MaxDeliver => \A s \in Signals : ENABLED Deliver(s)
  /\ \A i \in Inst : Len(ch[i]) <= ChanCap /\ ctx[i].closed <= 1

\* C6 as stated: when the same watched signal has been delivered twice or
\* more to a live, registered instance, the context eventually is done with
\* error Canceled; deliveries never block, never fill more than the one
\* slot, and the done channel is never closed twice.
C6_Original ==
  /\ []NoDeliveryHarm
  /\ \A i \in Inst : DeliveredTwice(i) ~> (Done(i) /\ Err(i) = Canceled)

\* C6 amended: as stated, but the error is Canceled or, when the parent
\* completed with another reason before the listener cancelled, the parent's
\* reason.
C6_SignalsCoalesce ==
  /\ []NoDeliveryHarm
  /\ \A i \in Inst : DeliveredTwice(i) ~> (Done(i) /\ CanceledOrParents(i))

\* The same watched signal was delivered twice before the listener ran; the
\* listener then took the one buffered notification and cancelled.
C6_Witness ==
  /\ born["A"] = "live"
  /\ \E s \in Range(signals["A"]) : rcv["A"] = <<s, s>>
  /\ ch["A"] = <<>>
  /\ listener["A"] = "exit"
  /\ cause["A"] = "signal"
  /\ Err("A") = Canceled
  /\ ctx["A"].closed = 1

\* what a signal delivery could touch of instance i
Touched(i) == <<ch[i], rcv[i], listener[i], ctx[i], handlers[i]>>

\* C7: once a stop call on an instance has returned its channel is registered
\* for no signal, now and after every step, and a delivery of any signal
\* leaves its channel, its listener, its done-state and its error as they
\* were and does not enable the listener's receive.
C7_StopUnregisters ==
  [][\A i \in Inst :
       StopReturned(i) =>
         /\ handlers[i] = {}
         /\ handlers'[i] = {}
         /\ (\E s \in Signals : Deliver(s)) =>
              /\ Touched(i)' = Touched(i)
              /\ ~ENABLED ListenerRecv(i) => ~(ENABLED ListenerRecv(i))']_vars

\* A signal the instance watched arrived after a stop call had returned, and
\* none ever reached its channel.
C7_Witness ==
  /\ late["A"]
  /\ born["A"] = "live"
  /\ signals["A"] = <<>>
  /\ rcv["A"] = <<>>
  /\ nSent = MaxDeliver

\* C8: for an instance derived from a live parent the channel stays
\* registered for exactly the signals given to signal.Notify in every state
\* before the first stop call, whether or not the context is done.
C8_RegisteredUntilStop ==
  \A i \in Inst :
    born[i] = "live" /\ called[i] = 0 =>
      handlers[i] = NotifyMask(signals[i]) /\ handlers[i] # {}

\* The context is done by a signal, stop was never called, and the channel is
\* still registered.
C8_Witness ==
  /\ born["A"] = "live"
  /\ called["A"] = 0
  /\ cause["A"] = "signal"
  /\ Done("A")
  /\ listener["A"] = "exit"
  /\ handlers["A"] = Range(signals["A"])

\* C9 as stated: a done context has error Canceled.
C9_Original == \A i \in Inst : Done(i) => Err(i) = Canceled

\* C9 amended: a done context has error Canceled when a watched signal, stop
\* or the parent's cancellation made it done, and the parent's reason
\* (DeadlineExceeded) when the parent completed for that other reason.
C9_Reason ==
  \A i \in Inst :
    Done(i) =>
      /\ cause[i] \in {"signal", "stop"} => Err(i) = Canceled
      /\ cause[i] = "parent" => Err(i) = parentErr[i] /\ Err(i) \in Reasons
      /\ cause[i] # "none"

\* The parent's cancellation made the context done although a signal was
\* buffered and a stop call came afterwards.
C9_Witness ==
  /\ cause["A"] = "parent"
  /\ Err("A") = Canceled
  /\ Len(rcv["A"]) > 0
  /\ called["A"] > 0

\* C10: Done() is closed exactly when Err() is not nil, and once the context
\* is done every step leaves it done with the same Err().
C10_DoneIsPermanent ==
  [][\A i \in Inst :
       /\ Done(i) <=> Err(i) # NoErr
       /\ Done(i) => Done(i)' /\ Err(i)' = Err(i)]_vars

\* The context was done by the parent's deadline; a stop call and the
\* listener's step came afterwards and the error is still the deadline's.
C10_Witness ==
  /\ Err("A") = DeadlineExceeded
  /\ born["A"] = "live"
  /\ StopReturned("A")
  /\ listener["A"] = "exit"

\* the canonical names of sigs, in order, separated by exactly one space
RECURSIVE NamesJoined(_)
NamesJoined(sigs) ==
  IF Len(sigs) = 0 THEN ""
  ELSE IF Len(sigs) = 1 THEN SignalString(sigs[1])
  ELSE SignalString(sigs[1]) \o " " \o NamesJoined(Tail(sigs))

\* the description the claim gives for a parent named pn watching sigs
Described(pn, sigs) ==
  "signal.NotifyContext(" \o pn
    \o (IF sigs = <<>> THEN "" ELSE ", [" \o NamesJoined(sigs) \o "]")
    \o ")"

\* C11: for an instance made from a live parent, what String() returned is
\* "signal.NotifyContext(" + the parent's description + (nothing for no
\* signals, else ", [" + the names in order, one space between + "]") + ")".
C11_Stringer ==
  \A i \in Inst :
    (born[i] = "live" /\ ret # <<>> /\ ret[1] = "String" /\ ret[2] = i) =>
      ret[4] = Described(parentIs[i].name, signals[i])

\* C11 for the build of src/unnamed/part_001 alone.
C11_StringerOfChild == build = "part_001" => C11_Stringer

\* C11's example: the parent context.Background.WithCancel and the signals
\* SIGHUP, SIGINT, SIGTERM, printed as the test expects.
C11_Example ==
  /\ born["A"] = "live"
  /\ parentIs["A"].name = "context.Background.WithCancel"
  /\ signals["A"] = <<"SIGHUP", "SIGINT", "SIGTERM">>
  /\ ret = <<"String", "A", "",
             "signal.NotifyContext(context.Background.WithCancel, [hangup interrupt terminated])">>

\* C12: every instance NotifyContext has returned has its channel allocated
\* and, until the first stop call, registered for the signals given, whether
\* the parent was live or done; so no stop call finds a nil channel.
C12_AlwaysRegisters ==
  /\ \A i \in Inst :
       born[i] # "no" =>
         /\ alloc[i]
         /\ called[i] = 0 => handlers[i] = NotifyMask(signals[i])
  /\ \A t \in Callers : sp[t] \in Inst => alloc[sp[t]]

\* C12 for the build of src/unnamed/part_001 alone.
C12_AlwaysRegistersOfChild == build = "part_001" => C12_AlwaysRegisters

\* a listener of a live context with no notification pending can take no
\* step
ListenerBlocked ==
  \A i \in Inst :
    (listener[i] = "select" /\ ~Done(i) /\ ch[i] = <<>>) =>
      ~ENABLED (ListenerRecv(i) \/ ListenerDone(i) \/ ListenerCancel(i))

\* C13: a started listener whose context is done, by a signal, by stop or by
\* the parent, eventually ends; and while the context is live and nothing is
\* pending in the channel the listener can take no step.
C13_ListenerEnds ==
  /\ []ListenerBlocked
  /\ \A i \in Inst :
       (listener[i] \in {"select", "recv"} /\ Done(i)) ~> listener[i] = "exit"

\* The listener ended through case <-c.Done() after the parent's completion,
\* with no signal and no stop call.
C13_Witness ==
  /\ listener["A"] = "exit"
  /\ cause["A"] = "parent"
  /\ nSent = 0
  /\ called["A"] = 0

\* one listener for a parent that was live at construction, none otherwise
ListenersAsBorn ==
  \A i \in Inst :
    /\ born[i] = "live" => started[i] = 1
    /\ born[i] \in {"no", "done"} => started[i] = 0

\* C14: an instance has had exactly one listener started when its parent was
\* live at construction and none when the parent was already done, and no
\* step after NotifyContext has returned starts another.
C14_OneListener ==
  /\ []ListenersAsBorn
  /\ [][\A i \in Inst : born[i] # "no" => started'[i] = started[i]]_vars

\* The parent was done at construction; signals reached the registered
\* channel and stop was called, and still no listener was ever started.
C14_Witness ==
  /\ born["A"] = "done"
  /\ Len(rcv["A"]) > 0
  /\ StopReturned("A")
  /\ started["A"] = 0
  /\ listener["A"] = "none"

\* C15 as stated: a done context has a done parent, or a stop call, or a
\* delivery of a signal of its watched list to its registered channel behind
\* it; and the signal that cancelled it is one of the watched list.
C15_Original ==
  \A i \in Inst :
    /\ Done(i) =>
         \/ parentErr[i] # NoErr
         \/ called[i] > 0
         \/ \E k \in 1..Len(rcv[i]) : rcv[i][k] \in Range(signals[i])
    /\ cause[i] = "signal" => rcv[i] # <<>> /\ rcv[i][1] \in Range(signals[i])

\* the signals that cancel an instance: those of its watched list, and every
\* signal when the list is empty
Cancelling(i) == IF signals[i] = <<>> THEN Signals ELSE Range(signals[i])

\* C15 amended: a done context has a done parent, or a stop call, or a
\* delivery to its registered channel behind it, of a signal of its watched
\* list or, when the list is empty, of any signal; with a list that is not
\* empty only its signals reach the channel.
C15_NoSpuriousCancel ==
  \A i \in Inst :
    /\ Done(i) =>
         \/ parentErr[i] # NoErr
         \/ called[i] > 0
         \/ \E k \in 1..Len(rcv[i]) : rcv[i][k] \in Cancelling(i)
    /\ cause[i] = "signal" => rcv[i] # <<>>
    /\ \A k \in 1..Len(rcv[i]) : rcv[i][k] \in Cancelling(i)

\* An instance watching a one-signal list was cancelled by that signal alone,
\* after another signal had arrived and not reached it.
C15_Witness ==
  /\ Len(signals["A"]) = 1
  /\ cause["A"] = "signal"
  /\ Done("A")
  /\ parentErr["A"] = NoErr
  /\ called["A"] = 0
  /\ nSent = 2
  /\ Len(rcv["A"]) = 1

\* what the component owns of an instance, and what it returns
Owned == <<born, ctx, cause, signals, alloc, ch, handlers, listener, sp, called,
           started, ret>>

\* C16: the component never changes its parent: a step that changes the
\* parent's done state changes nothing the component owns (it is the parent's
\* own completion), a parent once done keeps its reason, and the parent's
\* name, deadline and values never change.
C16_ParentUntouched ==
  [][/\ parentErr' # parentErr => Owned' = Owned
     /\ \A i \in Inst : parentErr[i] # NoErr => parentErr'[i] = parentErr[i]
     /\ parentIs' = parentIs]_vars

\* The instance was cancelled by a signal, its listener ended and a stop call
\* returned, and the parent is still live.
C16_Witness ==
  /\ cause["A"] = "signal"
  /\ listener["A"] = "exit"
  /\ StopReturned("A")
  /\ handlers["A"] = {}
  /\ parentErr["A"] = NoErr

\* the channel of every instance holds at most its one slot
WithinCap == \A i \in Inst : Len(ch[i]) <= ChanCap

\* the dispatcher can take the next signal whatever the channels hold
NeverBlocks == nSent < MaxDeliver => \A s \in Signals : ENABLED Deliver(s)

\* C17: the channel holds at most one pending notification; a signal relayed
\* to a full channel is dropped and the delivery does not wait; only the
\* listener's receive takes a notification, and a listener that has received
\* or ended never waits on the channel again, so it takes at most one.
C17_OneSlot ==
  /\ []WithinCap
  /\ []NeverBlocks
  /\ [][\A i \in Inst :
          /\ rcv'[i] # rcv[i] /\ Len(ch[i]) = ChanCap => ch'[i] = ch[i]
          /\ Len(ch'[i]) < Len(ch[i]) =>
               listener[i] = "select" /\ listener'[i] = "recv"
          /\ listener[i] \in {"recv", "exit"} => listener'[i] # "select"]_vars

\* A second, different watched signal was relayed while the first was still
\* pending: the channel holds the first only.
C17_Witness ==
  /\ Len(rcv["A"]) = 2
  /\ rcv["A"][1] # rcv["A"][2]
  /\ ch["A"] = <<rcv["A"][1]>>
  /\ listener["A"] = "select"
  /\ handlers["A"] = Signals

\* some caller is inside, enters or leaves stop of instance i in this step
StopStepOf(i) == sp' # sp /\ \E t \in Callers : sp[t] = i \/ sp'[t] = i

\* C18: two instances with overlapping signal lists are independent: a step
\* of stop on one of them, and a step of its listener, leaves the other's
\* channel, deliveries, listener, context and registration as they were; an
\* instance nobody called stop on stays registered for its signals; and a
\* signal relayed to an instance cancels it whatever happened to the other.
C18_Independent ==
  /\ [][\A i, j \in Inst :
          i # j /\ (StopStepOf(i) \/ listener'[i] # listener[i])
            => Touched(j)' = Touched(j)]_vars
  /\ [](\A j \in Inst :
          alloc[j] /\ called[j] = 0 => handlers[j] = NotifyMask(signals[j]))
  /\ \A j \in Inst : (rcv[j] # <<>>) ~> Done(j)

\* stop on A returned before the only signal arrived; the signal is in both
\* lists; it reached B alone and cancelled it, and A is as its stop left it.
C18_Witness ==
  /\ StopReturned("A")
  /\ late["A"]
  /\ nSent = 1
  /\ rcv["A"] = <<>>
  /\ cause["A"] = "stop"
  /\ Len(rcv["B"]) = 1
  /\ rcv["B"][1] \in Range(signals["A"])
  /\ called["B"] = 0
  /\ cause["B"] = "signal"
  /\ Done("B")

\* everything but the value the last call returned
AllButRet == <<build, todo, born, parentErr, ctx, cause, signals, alloc, ch,
               handlers, listener, sp, called, rcv, nSent, late, parentIs, started>>

\* C19: in every state of the instance, live or done, Deadline() returns the
\* parent's deadline and whether it has one, Value(key) returns the parent's
\* value for the key; and a call of Deadline, Value or String changes nothing
\* but what the caller gets back.
C19_Forwarded ==
  /\ [](ret # <<>> /\ ret[1] = "Deadline" =>
          ret[4] = <<parentIs[ret[2]].deadline,
                     parentIs[ret[2]].deadline # NoDeadline>>)
  /\ [](ret # <<>> /\ ret[1] = "Value" => ret[4] = parentIs[ret[2]].vals[ret[3]])
  /\ [][ret' # ret => AllButRet' = AllButRet]_vars

\* Deadline() of an instance that a signal had cancelled, whose parent has a
\* deadline and is still live, returned the parent's deadline.
C19_Witness ==
  /\ ret # <<>>
  /\ ret[1] = "Deadline"
  /\ ret[4][2]
  /\ cause["A"] = "signal"
  /\ Done("A")
  /\ parentErr["A"] = NoErr

====
